---- MODULE Spec2Model ----
(***************************************************************************)
(* Model of the MPCAP packet-capture writer of src/vppinfra/mpcap.h:       *)
(* mpcap_add_packet and mpcap_add_buffer, stepped at the granularity of    *)
(* the statements that touch the shared session, with one or several       *)
(* producers and the session spinlock.  mpcap_init and mpcap_close are     *)
(* declared in mpcap.h (lines 157, 160) but their bodies live in mpcap.c,  *)
(* which is not among the sources: they are modelled from the              *)
(* specification text (spec.md 4.5).                                       *)
(*                                                                         *)
(* Addresses are plain integers; mem is the mapped region, one cell per    *)
(* byte.  A timestamp (f64 seconds) is an integer number of grid points,    *)
(* TimeGrid to the microsecond.                                            *)
(***************************************************************************)
EXTENDS Integers, Sequences, FiniteSets, TLC

VARIABLES
  pm,         \* mpcap_main_t: the session
  mem,        \* the mapped region [file_baseva, file_baseva + max_file_size)
  file_size,  \* length of the backing file on disk
  loc,        \* per producer: position in mpcap_add_buffer, its locals, and
              \* (history) the session and memory as the call found them
  ret,        \* per producer: outcome of its last finished call
  seq,        \* history: the session had each call run alone, whole, in
              \* the order the calls passed the lock
  recs,       \* history: the records whose header was stored, in order
  oob,        \* history: some store fell outside the mapped region
  ncalls      \* number of calls made so far

vars == <<pm, mem, file_size, loc, ret, seq, recs, oob, ncalls>>

----------------------------------------------------------------------------
(* Bounds of the model *)

NProducers == 2
MaxCalls == 3
MaxFileSize == 61
MaxTarget == 2
BaseVA == 4096
\* resolution of the timestamps: grid points per microsecond
TimeGrid == 10

(* Program constants *)

\* sizeof (mpcap_file_header_t): u32 + u16 + u16 + 4 * u32
sizeof_file_header == 24
\* sizeof (mpcap_packet_header_t): 4 * u32, data[0] adds nothing
sizeof_packet_header == 16
\* the 1e6 of the microsecond field
usec_per_sec == 1000000

Producers == 1..NProducers

----------------------------------------------------------------------------
(* Inputs: packet buffer chains, capture limits, timestamps *)

\* A chain is its segments (b->data + b->current_data, b->current_length
\* bytes each), linked by next_buffer, and the total length that
\* vlib_buffer_length_in_chain reports for its first buffer.
Chain(segs, total) == [segs |-> segs, total |-> total]

Chains ==
  { Chain(<< <<>> >>, 0),
    Chain(<< <<11, 12, 13, 14, 15>> >>, 5),
    Chain(<< <<21, 22>>, <<>>, <<23, 24, 25>> >>, 5) }

\* Chains that break the chain invariant: the first buffer reports 5 bytes
\* in the chain, but the last buffer has no VLIB_BUFFER_NEXT_PRESENT and the
\* segments hold 2 and 3 bytes only
MalformedChains ==
  { Chain(<< <<31, 32>> >>, 5),
    Chain(<< <<41>>, <<42, 43>> >>, 5) }

\* What vlib_get_buffer (vm, b->next_buffer) may hand back when next_buffer
\* is not a link of the chain: some buffer of the pool, with its own bytes
StrayBuffers == { <<91>>, <<92, 93, 94, 95>> }

TraceLimits == {4, 8}

\* 1.5 s, and 2 s plus 0.7 microsecond
Times ==
  { (3 * usec_per_sec * TimeGrid) \div 2,
    2 * usec_per_sec * TimeGrid + (7 * TimeGrid) \div 10 }

vlib_buffer_length_in_chain(chain) == chain.total

clib_min(x, y) == IF x < y THEN x ELSE y

----------------------------------------------------------------------------
(* Memory *)

\* the bytes of a u32 in host (little-endian) byte order
U32Bytes(v) ==
  << v % 256, (v \div 256) % 256, (v \div 65536) % 256, (v \div 16777216) % 256 >>

U16Bytes(v) == << v % 256, (v \div 256) % 256 >>

\* memcpy / field stores: bytes to [addr, addr + Len(bytes))
Store(m, addr, bytes) ==
  [a \in DOMAIN m |->
     IF addr <= a /\ a < addr + Len(bytes) THEN bytes[a - addr + 1] ELSE m[a]]

\* some byte of the store lies outside the mapping
StoreOutside(m, addr, bytes) ==
  \E a \in addr .. (addr + Len(bytes) - 1) : a \notin DOMAIN m

\* mpcap_file_header_t as mpcap_init writes it: magic 0xa1b2c3d4, version
\* 2.4, time zone 0, sigfigs 0, max packet size, packet type
FileHeaderBytes(max_packet_size, packet_type) ==
  << 212, 195, 178, 161 >> \o U16Bytes(2) \o U16Bytes(4) \o U32Bytes(0)
    \o U32Bytes(0) \o U32Bytes(max_packet_size) \o U32Bytes(packet_type)

\* h->time_in_sec = time_now: f64 to u32 conversion drops the fraction
time_in_sec(time_now) == time_now \div (usec_per_sec * TimeGrid)

\* (mutant) the microseconds rounded to nearest
time_in_usec_Rounded(time_now) ==
  (2 * (time_now - time_in_sec(time_now) * usec_per_sec * TimeGrid) + TimeGrid)
    \div (2 * TimeGrid)

\* h->time_in_usec = 1e6 * (time_now - h->time_in_sec): again converted to
\* u32 by dropping the fraction
time_in_usec(time_now) ==
  (time_now - time_in_sec(time_now) * usec_per_sec * TimeGrid) \div TimeGrid

\* (mutant) the two length fields stored the wrong way round
PacketHeaderBytes_Swapped(time_now, n_bytes_in_trace, n_bytes_in_packet) ==
  U32Bytes(time_in_sec(time_now)) \o U32Bytes(time_in_usec(time_now))
    \o U32Bytes(n_bytes_in_packet) \o U32Bytes(n_bytes_in_trace)

\* mpcap_packet_header_t as mpcap_add_packet fills it
PacketHeaderBytes(time_now, n_bytes_in_trace, n_bytes_in_packet) ==
  U32Bytes(time_in_sec(time_now)) \o U32Bytes(time_in_usec(time_now))
    \o U32Bytes(n_bytes_in_trace) \o U32Bytes(n_bytes_in_packet)

----------------------------------------------------------------------------
(* The session life cycle (mpcap.c) *)

\* mpcap_init: map max_file_size bytes, write the file header, put the
\* cursor after it, clear the counters, mark the session open
mpcap_init(target, thread_safe) ==
  [ init_done            |-> TRUE,
    thread_safe          |-> thread_safe,
    lock                 |-> 0,
    n_packets_to_capture |-> target,
    max_file_size        |-> MaxFileSize,
    file_baseva          |-> BaseVA,
    current_va           |-> BaseVA + sizeof_file_header,
    n_packets_captured   |-> 0,
    min_packet_bytes     |-> 0,
    max_packet_bytes     |-> 0 ]

\* mpcap_close: nothing when already closed; else clear the open flag and
\* truncate the file to the used length current_va - file_baseva
mpcap_close_pm(s) ==
  IF s.init_done THEN [s EXCEPT !.init_done = FALSE] ELSE s

\* (mutant) no early return: a second close truncates again, from a mapping
\* that is gone
mpcap_close_size_NoEarlyReturn(s, size) ==
  IF s.init_done THEN s.current_va - s.file_baseva ELSE 0

mpcap_close_size(s, size) ==
  IF s.init_done THEN s.current_va - s.file_baseva ELSE size

----------------------------------------------------------------------------
(* Producers *)

IdleLoc ==
  [ pc |-> "idle", chain |-> Chain(<< <<>> >>, 0), b |-> 1, n |-> 0,
    n_left |-> 0, d |-> 0, time_now |-> 0, n_bytes_in_trace |-> 0,
    old |-> 0, stray |-> <<>> ]

Idle(p) == loc[p].pc = "idle"

Init ==
  /\ \E target \in 1..MaxTarget, thread_safe \in BOOLEAN :
       pm = mpcap_init(target, thread_safe)
  /\ mem = [a \in BaseVA .. (BaseVA + MaxFileSize - 1) |->
              IF a < BaseVA + sizeof_file_header
                THEN FileHeaderBytes(0, 1)[a - BaseVA + 1]
                ELSE 0]
  /\ file_size = MaxFileSize
  /\ loc = [p \in Producers |-> IdleLoc]
  /\ ret = [p \in Producers |-> "none"]
  /\ seq = [pm |-> pm, mem |-> mem, file_size |-> file_size, recs |-> <<>>]
  /\ recs = <<>>
  /\ oob = FALSE
  /\ ncalls = 0

\* the record a written call leaves in the history
Rec(h, chain, time_now, limit) ==
  [ h |-> h, chain |-> chain, time_now |-> time_now, limit |-> limit ]

\* The copy loop of mpcap_add_buffer run to its end: the memory it leaves.
\* It stops when n_left is used up, or at a buffer with no next buffer.
RECURSIVE CopyLoop(_, _, _, _, _)
CopyLoop(m, segs, b, d, n_left) ==
  LET current_length == Len(segs[b])
      copy_length == clib_min(n_left, current_length)
      m1 == Store(m, d, SubSeq(segs[b], 1, copy_length))
  IN IF n_left - current_length <= 0 \/ b >= Len(segs)
       THEN m1
       ELSE CopyLoop(m1, segs, b + 1, d + current_length, n_left - current_length)

\* mpcap_add_buffer run alone from entry to return, on the session s
SeqAddBuffer(s, chain, time_now, n_bytes_in_trace) ==
  LET n == vlib_buffer_length_in_chain(chain)
      n_left == clib_min(n_bytes_in_trace, n)
      d == s.pm.current_va
      pm1 == [s.pm EXCEPT !.current_va = d + sizeof_packet_header + n_left]
      pm2 == [pm1 EXCEPT !.n_packets_captured = pm1.n_packets_captured + 1]
      m1 == Store(s.mem, d, PacketHeaderBytes(time_now, n_left, n))
      m2 == CopyLoop(m1, chain.segs, 1, d + sizeof_packet_header, n_left)
  IN IF ~s.pm.init_done
       THEN s
       ELSE IF pm1.current_va >= pm1.file_baseva + pm1.max_file_size
         THEN [s EXCEPT !.pm = mpcap_close_pm(pm1),
                        !.file_size = mpcap_close_size(pm1, s.file_size)]
         ELSE [ pm |-> IF pm2.n_packets_captured >= pm2.n_packets_to_capture
                         THEN mpcap_close_pm(pm2) ELSE pm2,
                mem |-> m2,
                file_size |-> IF pm2.n_packets_captured >= pm2.n_packets_to_capture
                                THEN mpcap_close_size(pm2, s.file_size)
                                ELSE s.file_size,
                recs |-> Append(s.recs, Rec(d, chain, time_now, n_bytes_in_trace)) ]

SeqClose(s) ==
  [s EXCEPT !.pm = mpcap_close_pm(s.pm),
            !.file_size = mpcap_close_size(s.pm, s.file_size)]

\* A producer enters mpcap_add_buffer.  Without MPCAP_FLAG_THREAD_SAFE the
\* caller keeps to one producer at a time.  The arguments and the locals
\* b, n, n_left computed from them are private to the producer until it is
\* past the lock, so they are drawn there, in Lock.
Call(p) ==
  /\ Idle(p)
  /\ ncalls < MaxCalls
  /\ pm.thread_safe \/ \A q \in Producers : Idle(q)
  /\ loc' = [loc EXCEPT ![p].pc = "lock"]
  /\ ret' = [ret EXCEPT ![p] = "none"]
  /\ ncalls' = ncalls + 1
  /\ UNCHANGED <<pm, mem, file_size, seq, recs, oob>>

\* the locals of mpcap_add_buffer once it is past the lock
Locals(chain, time_now, n_bytes_in_trace, old) ==
  [ pc |-> "add_packet", chain |-> chain, b |-> 1,
    n |-> vlib_buffer_length_in_chain(chain),
    n_left |-> clib_min(n_bytes_in_trace, vlib_buffer_length_in_chain(chain)),
    d |-> 0, time_now |-> time_now, n_bytes_in_trace |-> n_bytes_in_trace,
    old |-> old, stray |-> <<>> ]

\* clib_spinlock_lock_if_init
LockFree(s) == s.lock = 0

\* (mutant) the lock call left out: the producer goes straight in
Lock_NoWait(p, chain, time_now, n_bytes_in_trace) ==
  /\ loc[p].pc = "lock"
  /\ pm' = IF pm.thread_safe THEN [pm EXCEPT !.lock = p] ELSE pm
  /\ loc' = [loc EXCEPT ![p] =
       Locals(chain, time_now, n_bytes_in_trace,
              [pm |-> pm, mem |-> mem, file_size |-> file_size])]
  /\ seq' = SeqAddBuffer(seq, chain, time_now, n_bytes_in_trace)
  /\ UNCHANGED <<mem, file_size, ret, recs, oob, ncalls>>

Lock(p, chain, time_now, n_bytes_in_trace) ==
  /\ loc[p].pc = "lock"
  /\ IF pm.thread_safe
       THEN LockFree(pm) /\ pm' = [pm EXCEPT !.lock = p]
       ELSE pm' = pm
  /\ loc' = [loc EXCEPT ![p] =
       Locals(chain, time_now, n_bytes_in_trace,
              [pm |-> pm, mem |-> mem, file_size |-> file_size])]
  /\ seq' = SeqAddBuffer(seq, chain, time_now, n_bytes_in_trace)
  /\ UNCHANGED <<mem, file_size, ret, recs, oob, ncalls>>

\* mpcap_add_packet, "File already closed?", then the cursor is advanced
\* (mutant) the test reads a flag that close never clears
FileClosed_WrongFlag(s) == FALSE

FileClosed(s) == ~s.init_done

\* (mutant) the cursor is left where it was
AddPacketEnter_NoAdvance(p) ==
  /\ loc[p].pc = "add_packet"
  /\ IF FileClosed(pm)
       THEN loc' = [loc EXCEPT ![p].pc = "not_written", ![p].d = 0]
       ELSE loc' = [loc EXCEPT ![p].pc = "space", ![p].d = pm.current_va]
  /\ UNCHANGED <<pm, mem, file_size, ret, seq, recs, oob, ncalls>>

AddPacketEnter(p) ==
  /\ loc[p].pc = "add_packet"
  /\ IF FileClosed(pm)
       THEN /\ loc' = [loc EXCEPT ![p].pc = "not_written", ![p].d = 0]
            /\ pm' = pm
       ELSE /\ loc' = [loc EXCEPT ![p].pc = "space", ![p].d = pm.current_va]
            /\ pm' = [pm EXCEPT !.current_va =
                        pm.current_va + sizeof_packet_header + loc[p].n_left]
  /\ UNCHANGED <<mem, file_size, ret, seq, recs, oob, ncalls>>

\* mpcap_add_packet, "Out of space?"
\* (mutant) the record header is left out of the space needed
OutOfSpace_NoHeader(s) ==
  s.current_va - sizeof_packet_header >= s.file_baseva + s.max_file_size

\* (mutant) the test is left out
OutOfSpace_Never(s) == FALSE

OutOfSpace(s) == s.current_va >= s.file_baseva + s.max_file_size

AddPacketSpace(p) ==
  /\ loc[p].pc = "space"
  /\ IF OutOfSpace(pm)
       THEN loc' = [loc EXCEPT ![p].pc = "not_written", ![p].d = 0]
       ELSE loc' = [loc EXCEPT ![p].pc = "header"]
  /\ UNCHANGED <<pm, mem, file_size, ret, seq, recs, oob, ncalls>>

\* mpcap_add_packet: the four header fields, the counter, return h->data
AddPacketHeader(p) ==
  /\ loc[p].pc = "header"
  /\ LET hdr == PacketHeaderBytes(loc[p].time_now, loc[p].n_left, loc[p].n)
     IN /\ mem' = Store(mem, loc[p].d, hdr)
        /\ oob' = (oob \/ StoreOutside(mem, loc[p].d, hdr))
  /\ pm' = [pm EXCEPT !.n_packets_captured = pm.n_packets_captured + 1]
  /\ recs' = Append(recs, Rec(loc[p].d, loc[p].chain, loc[p].time_now,
                              loc[p].n_bytes_in_trace))
  /\ loc' = [loc EXCEPT ![p].pc = "copy", ![p].d = loc[p].d + sizeof_packet_header]
  /\ UNCHANGED <<file_size, ret, seq, ncalls>>

\* copy_length = clib_min ((u32) n_left, b->current_length)
\* (mutant) the whole segment, whatever is left to copy
copy_length_Whole(n_left, current_length) == current_length

copy_length(n_left, current_length) == clib_min(n_left, current_length)

\* if (n_left <= 0) break
CopyDone(n_left) == n_left <= 0

\* one turn of the copy loop of mpcap_add_buffer
CopySegment(p) ==
  /\ loc[p].pc = "copy"
  /\ LET segs == loc[p].chain.segs
         seg == IF loc[p].b <= Len(segs)
                  THEN segs[loc[p].b]
                  ELSE loc[p].stray[loc[p].b - Len(segs)]
         current_length == Len(seg)
         bytes == SubSeq(seg, 1, copy_length(loc[p].n_left, current_length))
         n_left == loc[p].n_left - current_length
     IN /\ mem' = Store(mem, loc[p].d, bytes)
        /\ oob' = (oob \/ StoreOutside(mem, loc[p].d, bytes))
        /\ IF CopyDone(n_left)
             THEN loc' = [loc EXCEPT ![p].pc = "target", ![p].n_left = n_left]
             ELSE IF loc[p].b < Len(loc[p].chain.segs)
               THEN loc' = [loc EXCEPT ![p].n_left = n_left,
                                       ![p].d = loc[p].d + current_length,
                                       ![p].b = loc[p].b + 1]
               ELSE \* ASSERT (b->flags & VLIB_BUFFER_NEXT_PRESENT) fails
                    loc' = [loc EXCEPT ![p].pc = "assert",
                                       ![p].n_left = n_left,
                                       ![p].d = loc[p].d + current_length]
  /\ UNCHANGED <<pm, file_size, ret, seq, recs, ncalls>>

\* The ASSERT of the copy loop on a buffer with no next buffer, in a build
\* with assertions: the process is aborted where it stands, lock held
AssertFails(p) ==
  /\ loc[p].pc = "assert"
  /\ loc' = [loc EXCEPT ![p].pc = "aborted"]
  /\ UNCHANGED <<pm, mem, file_size, ret, seq, recs, oob, ncalls>>

\* The same place in a build without assertions: ASSERT is empty and
\* b = vlib_get_buffer (vm, b->next_buffer) is taken whatever next_buffer
\* holds; the loop goes on with a buffer that is not of the chain
FollowNextBuffer(p) ==
  /\ loc[p].pc = "assert"
  /\ \E stray \in StrayBuffers :
       loc' = [loc EXCEPT ![p].pc = "copy",
                          ![p].stray = Append(loc[p].stray, stray),
                          ![p].b = loc[p].b + 1]
  /\ UNCHANGED <<pm, mem, file_size, ret, seq, recs, oob, ncalls>>

\* d == 0: mpcap_close, then on to the unlock and return
\* (mutant) mpcap_close takes the lock itself, which the caller holds
CloseNotWritten_Relock(p) ==
  /\ loc[p].pc = "not_written"
  /\ LockFree(pm)
  /\ pm' = mpcap_close_pm(pm)
  /\ file_size' = mpcap_close_size(pm, file_size)
  /\ loc' = [loc EXCEPT ![p].pc = "unlock"]
  /\ ret' = [ret EXCEPT ![p] = "not_written"]
  /\ UNCHANGED <<mem, seq, recs, oob, ncalls>>

CloseNotWritten(p) ==
  /\ loc[p].pc = "not_written"
  /\ pm' = mpcap_close_pm(pm)
  /\ file_size' = mpcap_close_size(pm, file_size)
  /\ loc' = [loc EXCEPT ![p].pc = "unlock"]
  /\ ret' = [ret EXCEPT ![p] = "not_written"]
  /\ UNCHANGED <<mem, seq, recs, oob, ncalls>>

\* after the copy: close when the target count is reached
\* (mutant) > for >=
TargetReached_Strict(s) == s.n_packets_captured > s.n_packets_to_capture

TargetReached(s) == s.n_packets_captured >= s.n_packets_to_capture

\* (mutant) mpcap_close takes the lock itself, which the caller holds
CloseOnTarget_Relock(p) ==
  /\ loc[p].pc = "target"
  /\ IF TargetReached(pm)
       THEN /\ LockFree(pm)
            /\ pm' = mpcap_close_pm(pm)
            /\ file_size' = mpcap_close_size(pm, file_size)
       ELSE UNCHANGED <<pm, file_size>>
  /\ loc' = [loc EXCEPT ![p].pc = "unlock"]
  /\ ret' = [ret EXCEPT ![p] = "written"]
  /\ UNCHANGED <<mem, seq, recs, oob, ncalls>>

CloseOnTarget(p) ==
  /\ loc[p].pc = "target"
  /\ IF TargetReached(pm)
       THEN /\ pm' = mpcap_close_pm(pm)
            /\ file_size' = mpcap_close_size(pm, file_size)
       ELSE UNCHANGED <<pm, file_size>>
  /\ loc' = [loc EXCEPT ![p].pc = "unlock"]
  /\ ret' = [ret EXCEPT ![p] = "written"]
  /\ UNCHANGED <<mem, seq, recs, oob, ncalls>>

\* (mutant) the return after a failed append leaves the lock held
Unlock_NotOnFailure(p) ==
  /\ loc[p].pc = "unlock"
  /\ pm' = IF pm.thread_safe /\ ret[p] = "written" THEN [pm EXCEPT !.lock = 0] ELSE pm
  /\ loc' = [loc EXCEPT ![p] = IdleLoc]
  /\ UNCHANGED <<mem, file_size, ret, seq, recs, oob, ncalls>>

\* clib_spinlock_unlock_if_init, and the call returns
Unlock(p) ==
  /\ loc[p].pc = "unlock"
  /\ pm' = IF pm.thread_safe THEN [pm EXCEPT !.lock = 0] ELSE pm
  /\ loc' = [loc EXCEPT ![p] = IdleLoc]
  /\ UNCHANGED <<mem, file_size, ret, seq, recs, oob, ncalls>>

\* mpcap_close called by the owner of the session, with the producers
\* stopped; it may be called again on a closed session
Close ==
  /\ \A p \in Producers : Idle(p)
  /\ pm' = mpcap_close_pm(pm)
  /\ file_size' = mpcap_close_size(pm, file_size)
  /\ seq' = SeqClose(seq)
  /\ UNCHANGED <<mem, loc, ret, recs, oob, ncalls>>

Next ==
  \/ \E p \in Producers : Call(p)
  \/ \E p \in Producers, chain \in Chains, t \in Times, lim \in TraceLimits :
       Lock(p, chain, t, lim)
  \/ \E p \in Producers : AddPacketEnter(p)
  \/ \E p \in Producers : AddPacketSpace(p)
  \/ \E p \in Producers : AddPacketHeader(p)
  \/ \E p \in Producers : CopySegment(p)
  \/ \E p \in Producers : CloseNotWritten(p)
  \/ \E p \in Producers : CloseOnTarget(p)
  \/ \E p \in Producers : Unlock(p)
  \/ Close

Spec == Init /\ [][Next]_vars

\* The program with producers that never stop calling, and with nobody
\* closing the session from outside.  The calls are not counted.
CallAgain(p) ==
  /\ Idle(p)
  /\ pm.thread_safe \/ \A q \in Producers : Idle(q)
  /\ loc' = [loc EXCEPT ![p].pc = "lock"]
  /\ ret' = [ret EXCEPT ![p] = "none"]
  /\ UNCHANGED <<pm, mem, file_size, seq, recs, oob, ncalls>>

\* the spin of clib_spinlock_lock_if_init getting the lock; whether and when
\* a call returns depends on the lengths only, so the packets all carry one
\* timestamp and are never cut short
Acquire(p) ==
  \E chain \in Chains :
    Lock(p, chain, CHOOSE t \in Times : \A u \in Times : t <= u,
         CHOOSE l \in TraceLimits : \A m \in TraceLimits : l >= m)

\* the straight-line code of mpcap_add_buffer between the lock and the return
Body(p) ==
  \/ AddPacketEnter(p)
  \/ AddPacketSpace(p)
  \/ AddPacketHeader(p)
  \/ CopySegment(p)
  \/ CloseNotWritten(p)
  \/ CloseOnTarget(p)
  \/ Unlock(p)

NextLive ==
  \/ \E p \in Producers : CallAgain(p)
  \/ \E p \in Producers : Acquire(p)
  \/ \E p \in Producers : Body(p)

\* Scheduling: some producer always calls again; a producer that is running
\* code goes on running it; a producer spinning at the lock tries again
\* and again, and gets the lock on some try if the lock is free on
\* infinitely many of them (the spinlock hands the lock to no one in
\* particular, so this much has to come from the scheduling)
SpecLive ==
  /\ Init
  /\ [][NextLive]_vars
  /\ WF_vars(\E p \in Producers : CallAgain(p))
  /\ \A p \in Producers : WF_vars(Body(p)) /\ SF_vars(Acquire(p))

\* The same program called with chains of either kind
NextMalformed ==
  \/ \E p \in Producers : Call(p)
  \/ \E p \in Producers, chain \in Chains \cup MalformedChains,
        time_now \in Times, n_bytes_in_trace \in TraceLimits :
       Lock(p, chain, time_now, n_bytes_in_trace)
  \/ \E p \in Producers : AddPacketEnter(p)
  \/ \E p \in Producers : AddPacketSpace(p)
  \/ \E p \in Producers : AddPacketHeader(p)
  \/ \E p \in Producers : CopySegment(p)
  \/ \E p \in Producers : AssertFails(p)
  \/ \E p \in Producers : FollowNextBuffer(p)
  \/ \E p \in Producers : CloseNotWritten(p)
  \/ \E p \in Producers : CloseOnTarget(p)
  \/ \E p \in Producers : Unlock(p)
  \/ Close

SpecMalformed == Init /\ [][NextMalformed]_vars

----------------------------------------------------------------------------
(* Vocabulary of the properties *)

Quiescent == \A p \in Producers : Idle(p)

Closed == ~pm.init_done

RegionEnd == pm.file_baseva + pm.max_file_size

\* the call of producer p is past its last access to the session
Finished(p) == loc[p].pc = "unlock"

\* the call of producer p found the session open / closed
FoundOpen(p) == loc[p].old.pm.init_done

\* n_captured and the footprint F of the call of producer p
NCaptured(p) == clib_min(loc[p].n_bytes_in_trace, loc[p].n)

Footprint(p) == sizeof_packet_header + NCaptured(p)

\* a u32 read back from memory, host byte order
ReadU32(m, a) ==
  m[a] + 256 * m[a + 1] + 65536 * m[a + 2] + 16777216 * m[a + 3]

\* the bytes of a chain's segments, end to end
RECURSIVE Flat(_)
Flat(segs) == IF segs = <<>> THEN <<>> ELSE Head(segs) \o Flat(Tail(segs))

\* what a record of the history should hold and where it should end
RecStored(r) == clib_min(r.limit, r.chain.total)

RecEnd(r) == r.h + sizeof_packet_header + RecStored(r)

RecPayload(r) == SubSeq(Flat(r.chain.segs), 1, RecStored(r))

RECURSIVE SumFootprints(_)
SumFootprints(rs) ==
  IF rs = <<>> THEN 0
  ELSE sizeof_packet_header + RecStored(Head(rs)) + SumFootprints(Tail(rs))

\* memory at [a, a + Len(bytes)) holds bytes
Holds(m, a, bytes) == \A i \in 1..Len(bytes) : m[a + i - 1] = bytes[i]

----------------------------------------------------------------------------
(* C1: between calls, from init on, the write cursor stays within the      *)
(* mapped region: file_baseva <= current_va <= file_baseva + max_file_size *)
C1_CursorInRegion ==
  Quiescent =>
    /\ pm.file_baseva <= pm.current_va
    /\ pm.current_va <= RegionEnd

(* C2: once the session is closed, the used length the file was truncated  *)
(* to is current_va - file_baseva and equals the file header plus the      *)
(* footprints 16 + n_captured of the calls whose record was written; calls *)
(* that wrote nothing add nothing.  The file header is counted either way: *)
(* as the 20 bytes of the statement or as sizeof (mpcap_file_header_t)     *)
C2_UsedLength ==
  (Closed /\ Quiescent) =>
    /\ file_size = pm.current_va - pm.file_baseva
    /\ \/ file_size = 20 + SumFootprints(recs)
       \/ file_size = sizeof_file_header + SumFootprints(recs)

(* C3: a call on an open session whose footprint ends exactly at           *)
(* file_baseva + max_file_size writes its record: outcome written, one     *)
(* more packet captured, cursor at the end of the region                   *)
C3_ExactFitWritten ==
  \A p \in Producers :
    ( /\ Finished(p)
      /\ FoundOpen(p)
      /\ loc[p].old.pm.current_va + Footprint(p) = RegionEnd )
    => /\ ret[p] = "written"
       /\ pm.n_packets_captured = loc[p].old.pm.n_packets_captured + 1
       /\ pm.current_va = RegionEnd

(* C4: a call on an open session whose footprint would pass the end of the *)
(* region stores no byte, leaves the packet count alone, ends not-written  *)
(* and leaves the session closed                                           *)
C4_OutOfSpace ==
  \A p \in Producers :
    ( /\ Finished(p)
      /\ FoundOpen(p)
      /\ loc[p].old.pm.current_va + Footprint(p) > RegionEnd )
    => /\ mem = loc[p].old.mem
       /\ pm.n_packets_captured = loc[p].old.pm.n_packets_captured
       /\ ret[p] = "not_written"
       /\ Closed

C4_Witness ==
  \E p \in Producers :
    /\ Finished(p)
    /\ FoundOpen(p)
    /\ loc[p].old.pm.current_va + Footprint(p) > RegionEnd
    /\ ret[p] = "not_written"
    /\ pm.n_packets_captured = 1

(* C5: once the open flag is cleared no step sets it again or changes the  *)
(* cursor, the packet count, the stored bytes or the file, and every call  *)
(* that finds the session closed ends not-written                          *)
C5_ClosedIsTerminal ==
  /\ [][ Closed =>
           /\ ~pm'.init_done
           /\ pm'.current_va = pm.current_va
           /\ pm'.n_packets_captured = pm.n_packets_captured
           /\ mem' = mem
           /\ file_size' = file_size ]_vars
  /\ [](\A p \in Producers :
          (Finished(p) /\ ~FoundOpen(p)) => ret[p] = "not_written")

C5_Witness ==
  \E p \in Producers :
    /\ Finished(p)
    /\ ~FoundOpen(p)
    /\ ret[p] = "not_written"
    /\ pm.n_packets_captured > 0

(* C6: the packet count never passes the target count, and a call that     *)
(* brings it to the target leaves the session closed, with one producer    *)
(* and with several producers under the lock                               *)
C6_TargetCount ==
  /\ pm.n_packets_captured <= pm.n_packets_to_capture
  /\ \A p \in Producers :
       ( /\ Finished(p)
         /\ ret[p] = "written"
         /\ pm.n_packets_captured >= pm.n_packets_to_capture )
       => Closed

C6_Witness ==
  \E p \in Producers, q \in Producers :
    /\ p # q
    /\ pm.thread_safe
    /\ Finished(p)
    /\ ret[p] = "written"
    /\ pm.n_packets_captured = pm.n_packets_to_capture
    /\ pm.n_packets_to_capture > 1
    /\ loc[q].pc = "lock"
    /\ Closed

(* C7: once the session is closed the file is the file header followed by  *)
(* the records of the written calls, back to back in call order, with      *)
(* nothing after the last one, as many as packets captured.  The file      *)
(* header is counted either way: as the 20 bytes of the statement or as    *)
(* sizeof (mpcap_file_header_t)                                            *)
C7_FileIsRecords ==
  (Closed /\ Quiescent) =>
    \E header_size \in {20, sizeof_file_header} :
      /\ Len(recs) = pm.n_packets_captured
      /\ \A i \in 1..Len(recs) :
           /\ recs[i].h = (IF i = 1 THEN pm.file_baseva + header_size
                                    ELSE RecEnd(recs[i - 1]))
           /\ RecEnd(recs[i]) <= RegionEnd
           /\ ReadU32(mem, recs[i].h + 8) = RecStored(recs[i])
           /\ Holds(mem, recs[i].h + sizeof_packet_header, RecPayload(recs[i]))
      /\ pm.file_baseva + file_size =
           (IF recs = <<>> THEN pm.file_baseva + header_size
                           ELSE RecEnd(recs[Len(recs)]))

(* C8: every record in memory has n_packet_bytes_stored_in_file equal to   *)
(* min(max_bytes_to_capture, chain total length) and n_bytes_in_packet     *)
(* equal to the chain total length, hence stored <= in packet              *)
C8_RecordLengths ==
  \A i \in 1..Len(recs) :
    /\ ReadU32(mem, recs[i].h + 8) = clib_min(recs[i].limit, recs[i].chain.total)
    /\ ReadU32(mem, recs[i].h + 12) = recs[i].chain.total
    /\ ReadU32(mem, recs[i].h + 12) >= ReadU32(mem, recs[i].h + 8)

C8_Witness ==
  \E i \in 1..Len(recs) :
    /\ recs[i].limit < recs[i].chain.total
    /\ ReadU32(mem, recs[i].h + 8) = recs[i].limit
    /\ ReadU32(mem, recs[i].h + 12) > ReadU32(mem, recs[i].h + 8)

(* C9: under the lock, a producer is between its first and last access to  *)
(* the session only while it holds the lock (so at most one is), and the   *)
(* lock is free whenever no producer is there: every way out releases it   *)
InCall(p) == loc[p].pc \notin {"idle", "lock"}

C9_LockDiscipline ==
  pm.thread_safe =>
    /\ \A p \in Producers : InCall(p) => pm.lock = p
    /\ \A p \in Producers, q \in Producers : (InCall(p) /\ InCall(q)) => p = q
    /\ (\A p \in Producers : ~InCall(p)) => pm.lock = 0

C9_Witness ==
  \E p \in Producers, q \in Producers :
    /\ pm.thread_safe
    /\ pm.lock = p
    /\ Finished(p)
    /\ ret[p] = "not_written"
    /\ loc[q].pc = "lock"
    /\ pm.n_packets_captured > 0

(* C10: under the lock, whenever no producer is past the lock (others may  *)
(* be waiting at it) the session, the memory, the file length and the      *)
(* order of the records are those of the calls that passed the lock, run   *)
(* whole, one after another in that order; the records never overlap and   *)
(* each one's header and payload are those of one call                     *)
C10_Serialized ==
  (pm.thread_safe /\ \A p \in Producers : ~InCall(p)) =>
    /\ pm = seq.pm
    /\ mem = seq.mem
    /\ file_size = seq.file_size
    /\ recs = seq.recs
    /\ \A i \in 1..Len(recs) :
         /\ i > 1 => RecEnd(recs[i - 1]) <= recs[i].h
         /\ Holds(mem, recs[i].h,
                  PacketHeaderBytes(recs[i].time_now, RecStored(recs[i]),
                                    recs[i].chain.total))
         /\ Holds(mem, recs[i].h + sizeof_packet_header, RecPayload(recs[i]))

C10_Witness ==
  /\ pm.thread_safe
  /\ Quiescent
  /\ Len(recs) = 2
  /\ recs[1].chain # recs[2].chain
  /\ \E p \in Producers, q \in Producers :
       p # q /\ ret[p] = "written" /\ ret[q] = "written"

(* C11: close is idempotent: on a closed session another close changes     *)
(* neither the session nor the file length, and a call of add_buffer that  *)
(* finds the session closed (and so closes again) leaves the file length,  *)
(* the stored bytes and the cursor as it found them                        *)
C11_CloseIdempotent ==
  /\ Closed =>
       /\ mpcap_close_pm(pm) = pm
       /\ mpcap_close_size(pm, file_size) = file_size
  /\ \A p \in Producers :
       (Finished(p) /\ ~FoundOpen(p)) =>
         /\ file_size = loc[p].old.file_size
         /\ mem = loc[p].old.mem
         /\ pm.current_va = loc[p].old.pm.current_va

C11_Witness ==
  \E p \in Producers :
    /\ Finished(p)
    /\ ~FoundOpen(p)
    /\ file_size = loc[p].old.file_size
    /\ file_size = pm.current_va - pm.file_baseva
    /\ file_size < pm.max_file_size

\* the exact microsecond remainder of a timestamp, in grid points
SubSecond(time_now) == time_now % (usec_per_sec * TimeGrid)

\* that remainder in microseconds, rounded to nearest
RoundedUsec(time_now) == (2 * SubSecond(time_now) + TimeGrid) \div (2 * TimeGrid)

(* C12 as stated: every record holds time_in_sec = floor(t) and            *)
(* time_in_usec = the microsecond remainder rounded to nearest             *)
C12_UsecRounded ==
  \A i \in 1..Len(recs) :
    /\ ReadU32(mem, recs[i].h) * usec_per_sec * TimeGrid
         <= recs[i].time_now
    /\ recs[i].time_now
         < (ReadU32(mem, recs[i].h) + 1) * usec_per_sec * TimeGrid
    /\ ReadU32(mem, recs[i].h + 4) = RoundedUsec(recs[i].time_now)

(* C12 amended: every record holds time_in_sec = floor(t) and time_in_usec *)
(* = the microsecond remainder with its fraction dropped: at most the      *)
(* exact remainder, less than one microsecond below it, and below 1e6      *)
C12_UsecTruncated ==
  \A i \in 1..Len(recs) :
    LET sec == ReadU32(mem, recs[i].h)
        usec == ReadU32(mem, recs[i].h + 4)
    IN /\ sec * usec_per_sec * TimeGrid <= recs[i].time_now
       /\ recs[i].time_now < (sec + 1) * usec_per_sec * TimeGrid
       /\ usec * TimeGrid <= SubSecond(recs[i].time_now)
       /\ SubSecond(recs[i].time_now) < (usec + 1) * TimeGrid
       /\ usec < usec_per_sec

C12_Witness ==
  \E i \in 1..Len(recs) :
    /\ 2 * (SubSecond(recs[i].time_now) % TimeGrid) > TimeGrid
    /\ ReadU32(mem, recs[i].h + 4) * TimeGrid < SubSecond(recs[i].time_now)
    /\ ReadU32(mem, recs[i].h + 4) # RoundedUsec(recs[i].time_now)

\* the header and the payload of a record of the history are in memory
HeaderStored(r) ==
  Holds(mem, r.h, PacketHeaderBytes(r.time_now, RecStored(r), r.chain.total))

PayloadStored(r) == Holds(mem, r.h + sizeof_packet_header, RecPayload(r))

(* C13: the cursor moves past a record only after the record is            *)
(* stored: in every state in which the cursor is inside the region, the    *)
(* bytes from the first record's place to the cursor are the records       *)
(* written so far, each with its header and payload complete               *)
C13_WrittenBeforeAdvance ==
  pm.current_va < RegionEnd =>
    /\ pm.current_va =
         pm.file_baseva + sizeof_file_header + SumFootprints(recs)
    /\ \A i \in 1..Len(recs) : HeaderStored(recs[i]) /\ PayloadStored(recs[i])

(* C14: no store of a header or of payload bytes falls outside the mapped  *)
(* region or into the file header: whenever a call is about to store, its  *)
(* destination is at or after file_baseva + 20 and what it has still to    *)
(* store ends before file_baseva + max_file_size                           *)
C14_StoresInRegion ==
  /\ ~oob
  /\ \A p \in Producers :
       /\ loc[p].pc = "header" =>
            /\ loc[p].d >= pm.file_baseva + 20
            /\ loc[p].d + Footprint(p) < RegionEnd
       /\ loc[p].pc = "copy" =>
            /\ loc[p].d >= pm.file_baseva + 20 + sizeof_packet_header
            /\ loc[p].n_left >= 0
            /\ loc[p].d + loc[p].n_left < RegionEnd

C14_Witness ==
  /\ ~oob
  /\ \E p \in Producers :
       /\ loc[p].pc = "target"
       /\ loc[p].old.pm.n_packets_captured > 0
       /\ pm.current_va + sizeof_packet_header > RegionEnd
       /\ mem[pm.current_va - 1] # 0

(* C15: when the copy loop of a call is over, memory is what it was when   *)
(* the call began but for the record's header and, right after it, the     *)
(* first min(total length, n_bytes_in_trace) bytes of the segments taken   *)
(* end to end: nothing else is stored, and the destination pointer is not  *)
(* past the end of those bytes                                             *)
C15_Flatten ==
  \A p \in Producers :
    loc[p].pc = "target" =>
      LET d0 == loc[p].old.pm.current_va
          count == clib_min(loc[p].chain.total, loc[p].n_bytes_in_trace)
          hdr == PacketHeaderBytes(loc[p].time_now, count, loc[p].chain.total)
      IN /\ mem = Store(Store(loc[p].old.mem, d0, hdr),
                        d0 + sizeof_packet_header,
                        SubSeq(Flat(loc[p].chain.segs), 1, count))
         /\ loc[p].d <= d0 + sizeof_packet_header + count

C15_Witness ==
  \E p \in Producers :
    /\ loc[p].pc = "target"
    /\ \E k \in 1..Len(loc[p].chain.segs) :
         k < Len(loc[p].chain.segs) /\ loc[p].chain.segs[k] = <<>>
    /\ loc[p].n_bytes_in_trace < loc[p].chain.total
    /\ LET dest == loc[p].old.pm.current_va + sizeof_packet_header
       IN /\ mem[dest + loc[p].n_bytes_in_trace - 1] =
               Flat(loc[p].chain.segs)[loc[p].n_bytes_in_trace]
          /\ mem[dest + loc[p].n_bytes_in_trace] = 0

(* C16: a chain whose last buffer has no next buffer while bytes are still *)
(* wanted is cut short at that buffer: no call is aborted in the copy      *)
(* loop, none reads a buffer that is not of its chain, and a call that is  *)
(* over has released the lock                                              *)
C16_MalformedTruncated ==
  \A p \in Producers :
    /\ loc[p].pc # "aborted"
    /\ loc[p].stray = <<>>
    /\ Idle(p) => pm.lock # p

\* the sizes of the packets of the records written so far
PacketSizes == { recs[i].chain.total : i \in 1..Len(recs) }

(* C17: once a record is written, min_packet_bytes and max_packet_bytes    *)
(* bound the sizes of all written packets and are both attained            *)
C17_MinMaxStats ==
  (Quiescent /\ recs # <<>>) =>
    /\ \A size \in PacketSizes :
         pm.min_packet_bytes <= size /\ size <= pm.max_packet_bytes
    /\ pm.min_packet_bytes \in PacketSizes
    /\ pm.max_packet_bytes \in PacketSizes

(* C18: a call of add_buffer changes memory only inside its own record:    *)
(* from the entry of the call on, every byte outside [cursor_before,       *)
(* cursor_before + 16 + n_captured) is as the call found it (every byte,   *)
(* when the call finds the session closed); that range starts at or after  *)
(* the end of the 20-byte file header and of every record written before   *)
(* the call                                                                *)
C18_AppendOnly ==
  \A p \in Producers :
    InCall(p) =>
      LET before == loc[p].old
          cursor_before == before.pm.current_va
      IN /\ \/ mem = before.mem
            \/ /\ FoundOpen(p)
               /\ \A a \in DOMAIN mem :
                    (a < cursor_before \/ a >= cursor_before + Footprint(p))
                      => mem[a] = before.mem[a]
         /\ cursor_before >= pm.file_baseva + 20
         /\ before.pm.n_packets_captured <= Len(recs)
         /\ \A i \in 1..before.pm.n_packets_captured :
              RecEnd(recs[i]) <= cursor_before

C18_Witness ==
  \E p \in Producers :
    /\ Finished(p)
    /\ ret[p] = "written"
    /\ loc[p].old.pm.n_packets_captured = 1
    /\ mem # loc[p].old.mem
    /\ HeaderStored(recs[1])
    /\ PayloadStored(recs[1])
    /\ recs[1].chain.total > 0

(* C19: with producers that keep calling, the session is eventually        *)
(* closed, with at most n_packets_to_capture records written; every call   *)
(* that finds the session open and comes to its end has written a record   *)
(* or closed the session                                                   *)
C19_CaptureEnds ==
  /\ <>Closed
  /\ [](pm.n_packets_captured <= pm.n_packets_to_capture)
  /\ [](\A p \in Producers :
          (Finished(p) /\ FoundOpen(p)) =>
            \/ Closed
            \/ pm.n_packets_captured > loc[p].old.pm.n_packets_captured)

C19_Witness ==
  /\ Closed
  /\ pm.n_packets_to_capture = MaxTarget
  /\ pm.n_packets_captured = MaxTarget
  /\ \E p \in Producers :
       /\ Finished(p)
       /\ FoundOpen(p)
       /\ loc[p].old.pm.n_packets_captured = MaxTarget - 1

====
